---- MODULE Spec2Model ----
(***************************************************************************)
(* dynamic-error-handler: the Express error middleware built by            *)
(* createErrorHandler (src/src/errorHandler.ts) and the catchAsync wrapper *)
(* (README, src/unnamed/part_000).                                         *)
(*                                                                         *)
(* JavaScript values are modelled as follows.                              *)
(*   - an optional property is a sequence of length <= 1: <<>> is          *)
(*     undefined, <<v>> is the value v;                                    *)
(*   - a string built by a template literal is the sequence of its pieces, *)
(*     so that two messages are equal iff they are built from the same     *)
(*     pieces in the same order;                                           *)
(*   - a call that may throw returns a record with a threw flag.           *)
(***************************************************************************)
EXTENDS Integers, Sequences, FiniteSets, TLC

None == <<>>
Some(v) == <<v>>

\* bound on the number of entries of a ValidationError's errors mapping
MaxErrors == 2

\* err.code === 11000
DuplicateKeyCode == 11000

\* JS truthiness of an optional number, string, boolean
TruthyNum(o) == o # None /\ o[1] # 0
TruthyStr(o) == o # None /\ o[1] # ""
TruthyBool(o) == o # None /\ o[1]

\* `${x}` of an optional string property
Str(o) == IF o = None THEN "undefined" ELSE o[1]

(***************************************************************************)
(* AppError (src/AppError.js is not among the sources; modelled from the   *)
(* OperationalError contract of the specification, sections 3 and 4.1).    *)
(* It extends Error and sets no name of its own, so name is "Error".       *)
(***************************************************************************)
AppErrorName == "Error"

AppError(message, statusCode) ==
    [ isAppError    |-> TRUE,
      name          |-> AppErrorName,
      message       |-> message,
      stack         |-> "AppError: stack",
      statusCode    |-> Some(statusCode),
      status        |-> Some(IF statusCode >= 400 /\ statusCode < 500
                             THEN "fail" ELSE "error"),
      isOperational |-> Some(TRUE),
      code          |-> None,
      errors        |-> None,
      path          |-> None,
      value         |-> None,
      keyValue      |-> None ]

\* the result of a call that returned e / that threw on e
Return(e, key) == [threw |-> FALSE, err |-> e, applied |-> <<key>>]
Throw(e, key)  == [threw |-> TRUE,  err |-> e, applied |-> <<key>>]

(***************************************************************************)
(* defaultHandlers                                                         *)
(***************************************************************************)
CastError(err) ==
    AppError(<<"Invalid ", Str(err.path), ": ", Str(err.value), ".">>, 400)

\* Array.prototype.join(". ") over the optional messages: an undefined
\* element contributes the empty string
RECURSIVE Join(_)
Join(msgs) ==
    IF msgs = <<>> THEN <<>>
    ELSE IF Len(msgs) = 1 THEN msgs[1]
    ELSE msgs[1] \o <<". ">> \o Join(Tail(msgs))

\* Object.values(err.errors) throws on undefined; el.message throws on a
\* null or undefined element
ValidationErrorThrows(err) ==
    \/ err.errors = None
    \/ \E i \in 1..Len(err.errors[1]) : err.errors[1][i] = None

\* mutant: only the first failure is reported
ValidationError_FirstOnly(err) ==
    LET errors == [i \in 1..Len(err.errors[1]) |-> err.errors[1][i][1]]
    IN  AppError(<<"Invalid input data. ">>
                 \o (IF errors = <<>> THEN <<>> ELSE errors[1]), 400)

ValidationError(err) ==
    LET errors == [i \in 1..Len(err.errors[1]) |-> err.errors[1][i][1]]
    IN  AppError(<<"Invalid input data. ">> \o Join(errors), 400)

\* JSON.stringify of the optional keyValue object (a sequence of <<key, value>>
\* pairs of strings); JSON.stringify(undefined) is undefined, printed by the
\* template literal as "undefined"
RECURSIVE StringifyPairs(_)
StringifyPairs(kv) ==
    IF kv = <<>> THEN <<>>
    ELSE <<"\"", kv[1][1], "\":\"", kv[1][2], "\"">>
         \o (IF Len(kv) > 1 THEN <<",">> ELSE <<>>)
         \o StringifyPairs(Tail(kv))

Stringify(o) ==
    IF o = None THEN <<"undefined">>
    ELSE <<"{">> \o StringifyPairs(o[1]) \o <<"}">>

DuplicateField(err) ==
    AppError(<<"Duplicate field value: ">> \o Stringify(err.keyValue), 400)

JsonWebTokenError(err) ==
    AppError(<<"Invalid token. Please log in again.">>, 401)

TokenExpiredError(err) ==
    AppError(<<"Token expired. Please log in again.">>, 401)

BuiltinKeys ==
    {"CastError", "ValidationError", "DuplicateField",
     "JsonWebTokenError", "TokenExpiredError"}

\* a handler is named by where it comes from and the key it sits under
defaultHandlers == [k \in BuiltinKeys |-> [origin |-> "default", key |-> k]]

\* a caller-supplied classifier, as in the README's example
CustomHandler(err) ==
    AppError(<<"Custom error: ">> \o err.message, 400)

\* the keys a caller may register classifiers under
CustomKeys == {"CastError", "DuplicateField", "Error", "MyCustomError"}

customHandlersOf(keys) == [k \in keys |-> [origin |-> "custom", key |-> k]]

\* mutant: the spread the other way round, built-ins win
MergeHandlers_DefaultsWin(customHandlers) ==
    [k \in DOMAIN defaultHandlers \cup DOMAIN customHandlers |->
        IF k \in DOMAIN defaultHandlers THEN defaultHandlers[k]
        ELSE customHandlers[k]]

\* { ...defaultHandlers, ...customHandlers }
MergeHandlers(customHandlers) ==
    [k \in DOMAIN defaultHandlers \cup DOMAIN customHandlers |->
        IF k \in DOMAIN customHandlers THEN customHandlers[k]
        ELSE defaultHandlers[k]]

\* handlers[key](err)
Call(h, err) ==
    IF h.origin = "custom" THEN Return(CustomHandler(err), h)
    ELSE CASE h.key = "CastError" -> Return(CastError(err), h)
           [] h.key = "ValidationError" ->
                 IF ValidationErrorThrows(err) THEN Throw(err, h)
                 ELSE Return(ValidationError(err), h)
           [] h.key = "DuplicateField" -> Return(DuplicateField(err), h)
           [] h.key = "JsonWebTokenError" -> Return(JsonWebTokenError(err), h)
           [] h.key = "TokenExpiredError" -> Return(TokenExpiredError(err), h)

(***************************************************************************)
(* logError: builds the record and appends it with synchronous fs calls;   *)
(* it throws when the sink cannot be written                               *)
(***************************************************************************)
logError(err, req, sinkOk) ==
    IF sinkOk
    THEN [threw |-> FALSE,
          log   |-> Some([url |-> req.originalUrl, method |-> req.method,
                          ip |-> req.ip, message |-> err.message,
                          stack |-> err.stack])]
    ELSE [threw |-> TRUE, log |-> None]

\* mutant: the trace is left out of the development payload
sendDevError_NoStack(err) ==
    [ statusCode |-> IF TruthyNum(err.statusCode) THEN err.statusCode[1] ELSE 500,
      body |-> [ status  |-> IF TruthyStr(err.status) THEN err.status[1] ELSE "error",
                 message |-> err.message ] ]

sendDevError(err) ==
    [ statusCode |-> IF TruthyNum(err.statusCode) THEN err.statusCode[1] ELSE 500,
      body |-> [ status  |-> IF TruthyStr(err.status) THEN err.status[1] ELSE "error",
                 message |-> err.message,
                 stack   |-> err.stack ] ]

\* mutant: the operational check is dropped, every error is sent as it is
sendProdError_Leak(err) ==
    [ statusCode |-> err.statusCode[1],
      body |-> [ status |-> err.status[1], message |-> err.message ] ]

sendProdError(err) ==
    IF TruthyBool(err.isOperational)
    THEN [ statusCode |-> err.statusCode[1],
           body |-> [ status |-> err.status[1], message |-> err.message ] ]
    ELSE [ statusCode |-> 500,
           body |-> [ status  |-> "error",
                      message |-> <<"Something went very wrong!">> ] ]

\* err.statusCode = err.statusCode || 500; err.status = err.status || "error"
Normalize(err) ==
    [err EXCEPT !.statusCode = IF TruthyNum(@) THEN @ ELSE Some(500),
                !.status     = IF TruthyStr(@) THEN @ ELSE Some("error")]

\* if (err.code === 11000) err = handlers.DuplicateField(err);
\* if (handlers[err.name]) err = handlers[err.name](err);
Classify(handlers, err) ==
    LET s1 == IF err.code = Some(DuplicateKeyCode)
              THEN Call(handlers["DuplicateField"], err)
              ELSE [threw |-> FALSE, err |-> err, applied |-> <<>>]
    IN  IF s1.threw THEN s1
        ELSE IF s1.err.name \in DOMAIN handlers
             THEN LET s2 == Call(handlers[s1.err.name], s1.err)
                  IN  [s2 EXCEPT !.applied = s1.applied \o @]
             ELSE s1

(***************************************************************************)
(* The middleware returned by createErrorHandler, as one call: what it     *)
(* wrote to res, whether it threw, what it logged, how often it called     *)
(* next, and the result of the classification step (None when not reached) *)
(***************************************************************************)
Outcome(threw, writes, log, classified) ==
    [threw |-> threw, res |-> writes, log |-> log, next |-> 0,
     classified |-> classified]

errorMiddleware(handlers, enableLogging, err0, req, env, sinkOk) ==
    LET lg == IF enableLogging THEN logError(err0, req, sinkOk)
              ELSE [threw |-> FALSE, log |-> None]
    IN  IF lg.threw THEN Outcome(TRUE, <<>>, None, None)
        ELSE LET c == Classify(handlers, Normalize(err0))
             IN  IF c.threw THEN Outcome(TRUE, <<>>, lg.log, Some(c))
                 ELSE IF env = "development"
                      THEN Outcome(FALSE, <<sendDevError(c.err)>>, lg.log, Some(c))
                      ELSE Outcome(FALSE, <<sendProdError(c.err)>>, lg.log, Some(c))

(***************************************************************************)
(* catchAsync: fn(req, res, next).catch(next)                              *)
(* the calls of next made by the rejection callback                        *)
(***************************************************************************)
\* mutant: .catch(() => {}), the failure is swallowed
catchCallback_Swallow(reason) == <<>>

catchCallback(reason) == <<reason>>

\* the calls of next made by the wrapper when the promise fulfils
thenCallback(value) == <<>>

(***************************************************************************)
(* Inputs                                                                  *)
(***************************************************************************)
\* one entry of a ValidationError's errors mapping: null, an object without
\* message, or an object with a message
ErrorEntries ==
    {None, Some(None), Some(Some("A required")), Some(Some("B invalid"))}

RECURSIVE SeqsUpTo(_, _)
SeqsUpTo(S, n) ==
    IF n = 0 THEN {<<>>}
    ELSE LET shorter == SeqsUpTo(S, n - 1)
         IN  shorter \cup {Append(s, x) : s \in shorter, x \in S}

Names ==
    BuiltinKeys \cup {"Error", "MyCustomError", "SyntaxError"}

\* the fields every raw error carries, whatever its name
RawBase ==
    [ isAppError    : {FALSE},
      name          : Names,
      message       : {<<"secret detail">>},
      stack         : {"Error: secret detail at db.js:1"},
      statusCode    : {None, Some(404)},
      status        : {None, Some("fail")},
      isOperational : {None, Some(FALSE), Some(TRUE)},
      code          : {None, Some(DuplicateKeyCode)},
      errors        : {None},
      path          : {None},
      value         : {None},
      keyValue      : {None} ]

\* the fields a driver sets on the kind of error it raises
RawErrors ==
    UNION { CASE e.name = "CastError" ->
                   {e, [e EXCEPT !.path = Some("id"), !.value = Some("xyz")]}
              [] e.name = "ValidationError" ->
                   {e} \cup {[e EXCEPT !.errors = Some(s)] :
                                s \in SeqsUpTo(ErrorEntries, MaxErrors)}
              [] e.code = Some(DuplicateKeyCode) ->
                   {e, [e EXCEPT !.keyValue = Some(<<<<"email", "a@b.c">>>>)]}
              [] OTHER -> {e}
            : e \in RawBase }

\* errors the application raises itself
AppErrors == {AppError(<<"No tour found">>, 404), AppError(<<"Upstream down">>, 503)}

Errors == RawErrors \cup AppErrors

NodeEnvs == {"development", "production", "test"}

request == [originalUrl |-> "/test", method |-> "GET", ip |-> "::1"]

(***************************************************************************)
(* State                                                                   *)
(***************************************************************************)
VARIABLES
    customHandlers, \* the customHandlers option given to createErrorHandler
    handlers,       \* the merged registry captured by the middleware
    enableLogging,  \* the option captured by the middleware
    pc,             \* "idle", "awaiting", "rejected", "error", "done"
    promise,        \* of the wrapped operation: "none", "pending", "fulfilled", "rejected"
    handled,        \* a rejection callback is attached to the promise
    reason,         \* what the wrapped operation's promise rejected with
    wrapperNext,    \* the arguments of the wrapper's calls of next
    err,            \* the error handed to the error middleware (None before)
    nodeEnv,        \* process.env.NODE_ENV read by the middleware
    sinkOk,         \* whether the log file could be written
    out             \* the middleware's outcome (None before it ran)

vars == <<customHandlers, handlers, enableLogging, pc, promise, handled, reason,
          wrapperNext, err, nodeEnv, sinkOk, out>>

config == <<customHandlers, handlers, enableLogging>>

Init ==
    /\ enableLogging \in BOOLEAN
    /\ \E keys \in SUBSET CustomKeys : customHandlers = customHandlersOf(keys)
    /\ handlers = MergeHandlers(customHandlers)
    /\ pc = "idle"
    /\ promise = "none"
    /\ handled = FALSE
    /\ reason = None
    /\ wrapperNext = <<>>
    /\ err = None
    /\ nodeEnv = "production"
    /\ sinkOk = TRUE
    /\ out = None

\* a route wrapped by catchAsync is called: fn returns a pending promise and
\* the wrapper attaches next as its rejection callback
WrappedCall ==
    /\ pc = "idle"
    /\ pc' = "awaiting"
    /\ promise' = "pending"
    /\ handled' = TRUE
    /\ UNCHANGED <<config, reason, wrapperNext, err, nodeEnv, sinkOk, out>>

\* the wrapped operation succeeds
Fulfil ==
    /\ pc = "awaiting"
    /\ promise' = "fulfilled"
    /\ wrapperNext' = wrapperNext \o thenCallback("ok")
    /\ pc' = "done"
    /\ UNCHANGED <<config, handled, reason, err, nodeEnv, sinkOk, out>>

\* the wrapped operation fails
Reject ==
    /\ pc = "awaiting"
    /\ \E e \in Errors : reason' = Some(e)
    /\ promise' = "rejected"
    /\ pc' = "rejected"
    /\ UNCHANGED <<config, handled, wrapperNext, err, nodeEnv, sinkOk, out>>

\* the rejection callback runs; a call of next(reason) makes Express hand
\* the reason to the error middleware
RunCatch ==
    /\ pc = "rejected"
    /\ handled
    /\ LET calls == catchCallback(reason[1])
       IN  /\ wrapperNext' = wrapperNext \o calls
           /\ IF calls = <<>> THEN pc' = "done" /\ err' = err
              ELSE pc' = "error" /\ err' = Some(calls[1])
    /\ UNCHANGED <<config, promise, handled, reason, nodeEnv, sinkOk, out>>

\* a route throws synchronously or calls next(e) itself
Raise ==
    /\ pc = "idle"
    /\ \E e \in Errors : err' = Some(e)
    /\ pc' = "error"
    /\ UNCHANGED <<config, promise, handled, reason, wrapperNext, nodeEnv,
                   sinkOk, out>>

\* Express calls the error middleware with the error
ErrorMiddleware ==
    /\ pc = "error"
    /\ \E env \in NodeEnvs, ok \in (IF enableLogging THEN BOOLEAN ELSE {TRUE}) :
          /\ nodeEnv' = env
          /\ sinkOk' = ok
          /\ out' = Some(errorMiddleware(handlers, enableLogging, err[1],
                                         request, env, ok))
    /\ pc' = "done"
    /\ UNCHANGED <<config, promise, handled, reason, wrapperNext, err>>

\* the request is over; the error is discarded
EndRequest ==
    /\ pc = "done"
    /\ pc' = "idle"
    /\ promise' = "none"
    /\ handled' = FALSE
    /\ reason' = None
    /\ wrapperNext' = <<>>
    /\ err' = None
    /\ nodeEnv' = "production"
    /\ sinkOk' = TRUE
    /\ out' = None
    /\ UNCHANGED config

Next ==
    \/ WrappedCall
    \/ Fulfil
    \/ Reject
    \/ RunCatch
    \/ Raise
    \/ ErrorMiddleware
    \/ EndRequest

Spec == Init /\ [][Next]_vars

(***************************************************************************)
(* Properties                                                              *)
(***************************************************************************)
\* the error middleware has run for the current request
Ran == pc = "done" /\ out # None

\* the classification step was reached and returned
Classified == Ran /\ out[1].classified # None /\ ~out[1].classified[1].threw

\* the error handed to sendDevError / sendProdError
Formatted == out[1].classified[1].err

GenericResponse ==
    [ statusCode |-> 500,
      body |-> [status |-> "error", message |-> <<"Something went very wrong!">>] ]

\* the key an error is dispatched on: the duplicate-key sentinel or its name
Discriminator(e) ==
    IF e.code = Some(DuplicateKeyCode) THEN "DuplicateField" ELSE e.name

\* C1: outside development, an error that reaches the formatter with
\* isOperational false or absent is answered with status 500 and exactly
\* {status: "error", message: "Something went very wrong!"}, whatever its own
\* message, statusCode and status.
C1_NonOperationalIsGeneric ==
    (Classified /\ nodeEnv # "development" /\ ~TruthyBool(Formatted.isOperational))
        => out[1].res = <<GenericResponse>>

C1_Witness ==
    /\ Classified
    /\ nodeEnv = "test"
    /\ Formatted.isOperational = Some(FALSE)
    /\ Formatted.statusCode = Some(404)
    /\ Formatted.status = Some("fail")
    /\ Formatted.message = <<"secret detail">>
    /\ out[1].res = <<GenericResponse>>

\* C2: a payload written by the middleware has the stack field if and only if
\* NODE_ENV is "development", for operational and non-operational errors alike.
C2_StackIffVerbose ==
    Ran => \A i \in 1..Len(out[1].res) :
              ("stack" \in DOMAIN out[1].res[i].body) <=> (nodeEnv = "development")

C2_Witness ==
    /\ Classified
    /\ nodeEnv = "development"
    /\ ~TruthyBool(Formatted.isOperational)
    /\ Len(out[1].res) = 1
    /\ out[1].res[1].body.stack = "Error: secret detail at db.js:1"

\* C3: every call of the middleware writes exactly one response and never
\* calls next.
C3_ExactlyOneResponse ==
    Ran => /\ Len(out[1].res) = 1
           /\ out[1].next = 0

\* C4: a raw error that is no AppError and that no classifier matches is, outside
\* development, answered with the generic 500 payload, whatever fields
\* (isOperational included) it carries.
C4_UnmatchedRawIsGeneric ==
    ( /\ Classified
      /\ ~err[1].isAppError
      /\ err[1].code # Some(DuplicateKeyCode)
      /\ err[1].name \notin DOMAIN handlers
      /\ nodeEnv # "development" )
        => out[1].res = <<GenericResponse>>

\* C5: a raw error with code 11000 is classified by the built-in duplicate-field
\* classifier alone, whatever its name: status 400, message "Duplicate field
\* value: " and the serialized keyValue, and no classifier is looked up by name
\* for it.
C5_DuplicateKeyOnly ==
    ( /\ Ran
      /\ out[1].classified # None
      /\ err[1].code = Some(DuplicateKeyCode)
      /\ handlers["DuplicateField"] = defaultHandlers["DuplicateField"] )
        => /\ ~out[1].classified[1].threw
           /\ Formatted =
                 AppError(<<"Duplicate field value: ">> \o Stringify(err[1].keyValue), 400)
           /\ out[1].classified[1].applied = <<defaultHandlers["DuplicateField"]>>

\* the messages of a ValidationError's entries, separated by ". "
ExpectedJoined(entries) ==
    [i \in 1..(2 * Len(entries) - 1) |->
        IF i % 2 = 1 THEN entries[(i + 1) \div 2][1][1] ELSE ". "]

\* every entry of the errors mapping is an object with a message
WellFormedErrors(e) ==
    /\ e.errors # None
    /\ Len(e.errors[1]) >= 1
    /\ \A i \in 1..Len(e.errors[1]) :
          e.errors[1][i] # None /\ e.errors[1][i][1] # None

ExpectedMessage(e) ==
    CASE e.name = "CastError" -> <<"Invalid ", Str(e.path), ": ", Str(e.value), ".">>
      [] e.name = "ValidationError" ->
            <<"Invalid input data. ">> \o ExpectedJoined(e.errors[1])
      [] e.name = "JsonWebTokenError" -> <<"Invalid token. Please log in again.">>
      [] e.name = "TokenExpiredError" -> <<"Token expired. Please log in again.">>

ExpectedStatus(e) ==
    IF e.name \in {"CastError", "ValidationError"} THEN 400 ELSE 401

\* C6: with the default registry, an error whose code is not 11000 and whose
\* name is CastError, ValidationError (with a non-empty errors mapping of
\* entries with messages), JsonWebTokenError or TokenExpiredError becomes an
\* operational error with the documented message and status (400, 400, 401,
\* 401), and outside development the response carries exactly that message
\* and status.
C6_BuiltinClassifiers ==
    ( /\ Ran
      /\ out[1].classified # None
      /\ handlers = defaultHandlers
      /\ err[1].code # Some(DuplicateKeyCode)
      /\ err[1].name \in {"CastError", "ValidationError", "JsonWebTokenError",
                          "TokenExpiredError"}
      /\ (err[1].name = "ValidationError" => WellFormedErrors(err[1])) )
        => /\ ~out[1].classified[1].threw
           /\ Formatted.message = ExpectedMessage(err[1])
           /\ Formatted.statusCode = Some(ExpectedStatus(err[1]))
           /\ Formatted.isOperational = Some(TRUE)
           /\ (nodeEnv # "development" =>
                 out[1].res = << [ statusCode |-> ExpectedStatus(err[1]),
                                   body |-> [ status  |-> "fail",
                                              message |-> ExpectedMessage(err[1]) ] ] >>)

C6_Witness ==
    /\ Classified
    /\ handlers = defaultHandlers
    /\ nodeEnv = "production"
    /\ err[1].name = "ValidationError"
    /\ err[1].code = None
    /\ err[1].errors = Some(<<Some(Some("A required")), Some(Some("B invalid"))>>)
    /\ out[1].res = << [ statusCode |-> 400,
                         body |-> [ status  |-> "fail",
                                    message |-> <<"Invalid input data. ", "A required",
                                                  ". ", "B invalid">> ] ] >>

\* C7: when every custom classifier sits under a built-in discriminator, an
\* error with such a discriminator is classified by the custom function and
\* not by the built-in, and an error with any other discriminator is
\* classified exactly as with the default registry.
C7_CustomOverridesBuiltin ==
    ( /\ Ran
      /\ out[1].classified # None
      /\ DOMAIN customHandlers # {}
      /\ DOMAIN customHandlers \subseteq BuiltinKeys )
        => IF Discriminator(err[1]) \in DOMAIN customHandlers
           THEN /\ ~out[1].classified[1].threw
                /\ out[1].classified[1].applied = <<customHandlers[Discriminator(err[1])]>>
                /\ Formatted = CustomHandler(Normalize(err[1]))
           ELSE out[1].classified[1] = Classify(defaultHandlers, Normalize(err[1]))

C7_Witness ==
    /\ Classified
    /\ DOMAIN customHandlers = {"CastError"}
    /\ err[1].name = "CastError"
    /\ err[1].code = None
    /\ err[1].path = Some("id")
    /\ Formatted.message = <<"Custom error: ", "secret detail">>

\* C8: when logging is enabled and the log cannot be written, the middleware
\* still writes the response it writes when logging is disabled.
C8_LogFailureIsolated ==
    ( /\ Ran
      /\ enableLogging
      /\ ~sinkOk
      /\ ~errorMiddleware(handlers, FALSE, err[1], request, nodeEnv, TRUE).threw )
        => /\ Len(out[1].res) = 1
           /\ out[1].res =
                 errorMiddleware(handlers, FALSE, err[1], request, nodeEnv, TRUE).res

\* C9: the middleware never throws: when a classifier fails on a malformed raw
\* error the caller receives the generic 500 response.
C9_NeverThrows ==
    (Ran /\ sinkOk)
        => /\ ~out[1].threw
           /\ (out[1].classified[1].threw => out[1].res = <<GenericResponse>>)

\* C10: with catchAsync, a rejected operation makes the wrapper call next
\* exactly once, with the rejection's reason, and the rejection has a handler;
\* a fulfilled operation makes the wrapper call next never.
C10_CatchAsyncForwardsOnce ==
    /\ Len(wrapperNext) <= 1
    /\ promise = "fulfilled" => wrapperNext = <<>>
    /\ promise = "pending" => wrapperNext = <<>>
    /\ promise = "rejected" => handled
    /\ (promise = "rejected" /\ pc \in {"error", "done"}) => wrapperNext = <<reason[1]>>

C10_Witness ==
    /\ promise = "rejected"
    /\ pc = "done"
    /\ wrapperNext = <<reason[1]>>
    /\ err = reason
    /\ Ran
====
